---- MODULE Spec2Model ----
(***************************************************************************)
(* Content access gate of the LMS: the course access endpoint, the two     *)
(* content listings, the first-content query and the chapter detail GET,   *)
(* over one requested course, one learner and the rows of the chapter,     *)
(* quiz, purchase and quiz-result tables.                                  *)
(* With it: the upload handler of the object store and the FileUpload      *)
(* component that reads its event stream, the quiz start with its attempt  *)
(* limit, the per-student quiz settings and the course progress endpoint.  *)
(***************************************************************************)
EXTENDS Integers, Sequences, FiniteSets, TLC

VARIABLES
    course,         \* the requested course row: [price, isPublished]
    purchase,       \* the learner's purchase row for the course: its status, or "NONE"
    chapters,       \* chapter table: id -> row
    quizzes,        \* quiz table: id -> row
    quizResults,    \* quiz id -> the learner's percentages, in submittedAt order
    userStudyType,  \* the learner's studyType (a string; <<>> is null or "")
    resp,           \* the last response sent, with the request it answers
    env,            \* the object store configuration: [bucket, publicUrl]
    upload,         \* the upload request in progress and its response stream
    store,          \* the object store's side of the transfer
    call,           \* the last call of a key or content-type helper
    maxAttempts,    \* quiz id -> the maxAttempts column of the quiz row
    quizSettings,   \* quiz id -> the learner's QuizStudentSettings.maxAttempts, or 0
    quizAttempts,   \* quiz id -> the learner's QuizAttempt row, or "none"
    requests,       \* request slot -> a quiz GET in flight: its position and reads
    started,        \* history: the quiz GETs answered 200 so far
    client,         \* the FileUpload component during one uploadFile call
    userProgress,   \* chapter id -> the learner's UserProgress row, or none
    createdAt       \* createdAt of the purchase and of each quiz result

vars == <<course, purchase, chapters, quizzes, quizResults, userStudyType, resp,
          env, upload, store, call, maxAttempts, quizSettings, quizAttempts,
          requests, started, client, userProgress, createdAt>>
data == <<course, purchase, chapters, quizzes, quizResults, userStudyType>>
r2 == <<env, upload, store, call>>
quizSide == <<maxAttempts, quizSettings, quizAttempts, requests, started>>
others == <<quizSide, client, userProgress, createdAt>>

-----------------------------------------------------------------------------
(* Bounds of the model. *)

MaxPos == 3
MaxResults == 2

(* The passing threshold of every quiz rule. *)
PassPercentage == 50

CourseId == "course1"
OtherCourseId == "course2"
ChapterIds == {"c1", "c2"}
QuizIds == {"q1", "q2"}
NoId == "null"

Positions == 1..MaxPos
Percentages == {PassPercentage - 1, PassPercentage}
Prices == {0, 100}
PurchaseStatuses == {"NONE", "ACTIVE", "INACTIVE"}

-----------------------------------------------------------------------------
(* Strings of the study-type rule, as sequences of fragments: the three     *)
(* needles of the rule are "AWN SP LAYN", "AWN LAYN" and "CENTER".         *)

SP == "SP"
OnlineSpaced == <<"AWN", SP, "LAYN">>
OnlineJoined == <<"AWN", "LAYN">>
Center == <<"CENTER">>

RECURSIVE TrimStart(_)
TrimStart(s) ==
    IF s # <<>> /\ Head(s) = SP THEN TrimStart(Tail(s)) ELSE s

RECURSIVE TrimEnd(_)
TrimEnd(s) ==
    IF s # <<>> /\ s[Len(s)] = SP THEN TrimEnd(SubSeq(s, 1, Len(s) - 1)) ELSE s

Trim(s) == TrimEnd(TrimStart(s))

Includes(s, needle) ==
    \E i \in 1..(Len(s) - Len(needle) + 1) :
        SubSeq(s, i, i + Len(needle) - 1) = needle

-----------------------------------------------------------------------------
(* Table queries. *)

(* The quiz query without its isPublished filter. *)
QuizzesOfCourse ==
    {q \in DOMAIN quizzes : quizzes[q].courseId = CourseId}

(* where: { courseId, isPublished: true } on the chapter and quiz tables. *)
PublishedChapters ==
    {c \in DOMAIN chapters :
        chapters[c].courseId = CourseId /\ chapters[c].isPublished}

PublishedQuizzes ==
    {q \in DOMAIN quizzes :
        quizzes[q].courseId = CourseId /\ quizzes[q].isPublished}

(* orderBy: { position: "asc" }: the rows in non-decreasing position; the   *)
(* store fixes no order among rows of equal position, so every such order  *)
(* is a possible result of the query.                                      *)
OrderedByPosition(ids, table) ==
    {s \in [1..Cardinality(ids) -> ids] :
        /\ \A i, j \in DOMAIN s : i # j => s[i] # s[j]
        /\ \A i, j \in DOMAIN s : i < j => table[s[i]].position <= table[s[j]].position}

ChapterItem(c) == [id |-> c, type |-> "chapter", position |-> chapters[c].position]
QuizItem(q) == [id |-> q, type |-> "quiz", position |-> quizzes[q].position]

(* Array.prototype.sort((a, b) => a.position - b.position): a stable sort. *)
RECURSIVE InsertByPosition(_, _)
InsertByPosition(sorted, x) ==
    IF sorted = <<>> THEN <<x>>
    ELSE IF sorted[Len(sorted)].position <= x.position THEN Append(sorted, x)
    ELSE Append(InsertByPosition(SubSeq(sorted, 1, Len(sorted) - 1), x),
                sorted[Len(sorted)])

RECURSIVE SortByPosition(_)
SortByPosition(items) ==
    IF items = <<>> THEN <<>>
    ELSE InsertByPosition(SortByPosition(SubSeq(items, 1, Len(items) - 1)),
                          items[Len(items)])

(* [...chapters.map(type: 'chapter'), ...quizzes.map(type: 'quiz')].sort(...) *)
MergedContent(chapterOrder, quizOrder) ==
    SortByPosition([i \in 1..Len(chapterOrder) |-> ChapterItem(chapterOrder[i])]
                   \o [i \in 1..Len(quizOrder) |-> QuizItem(quizOrder[i])])

-----------------------------------------------------------------------------
(* Course access. *)

(* purchases: { where: { userId, status: "ACTIVE" } } *)
ActivePurchase == purchase = "ACTIVE"

(* hasAccess = course.price === 0 || course.purchases.length > 0 *)
PriceOrPurchase == course.price = 0 \/ ActivePurchase

(* content listings: hasAccess stays false without a session or when the   *)
(* published course is not found.                                          *)
ListingHasAccess(session) ==
    session /\ course.isPublished /\ PriceOrPurchase

(* chapter detail: the course is looked up by id alone. *)
ChapterDetailHasAccess == PriceOrPurchase

-----------------------------------------------------------------------------
(* Quiz results. *)

(* quizResults.reduce((best, current) =>                                   *)
(*     current.percentage > best.percentage ? current : best)              *)
RECURSIVE ReduceBest(_, _)
ReduceBest(best, rest) ==
    IF rest = <<>> THEN best
    ELSE ReduceBest(IF Head(rest) > best THEN Head(rest) ELSE best, Tail(rest))

BestPercentage(results) == ReduceBest(Head(results), Tail(results))

(* The pass test with the threshold excluded: a best result of exactly 50  *)
(* would not pass.                                                         *)
QuizNotPassedAbove(results) ==
    \/ Len(results) = 0
    \/ BestPercentage(results) <= PassPercentage

(* quizResults.length === 0, or bestResult.percentage < 50 *)
QuizNotPassed(results) ==
    \/ Len(results) = 0
    \/ BestPercentage(results) < PassPercentage

(* orderBy: { submittedAt: 'desc' }, take: 1 *)
LatestResult(results) ==
    IF results = <<>> THEN <<>> ELSE <<results[Len(results)]>>

(* const quizResult = requiredQuiz?.quizResults?.[0];                      *)
(* !quizResult || quizResult.percentage < 50                               *)
RequiredQuizNotPassed(q) ==
    LET taken == IF q \in DOMAIN quizzes THEN LatestResult(quizResults[q]) ELSE <<>>
    IN  taken = <<>> \/ taken[1] < PassPercentage

(* for (let i = index - 1; i >= 0; i--) if (prevContent.type === 'quiz'):  *)
(* the index of the nearest quiz before index, or 0.                       *)
RECURSIVE NearestPrevQuiz(_, _)
NearestPrevQuiz(content, index) ==
    IF index <= 1 THEN 0
    ELSE IF content[index - 1].type = "quiz" THEN index - 1
    ELSE NearestPrevQuiz(content, index - 1)

(* The sequential rule: the nearest quiz before the item is not passed. *)
PrevQuizBlocks(content, index) ==
    LET p == NearestPrevQuiz(content, index)
    IN  p # 0 /\ QuizNotPassed(quizResults[content[p].id])

-----------------------------------------------------------------------------
(* Study-type rule of the first-content query. *)

(* chapterStudyTypes.some(st => st === user || both include a needle),     *)
(* on the trimmed strings.                                                 *)
HasMatchingStudyType(chapterStudyTypes, userType) ==
    LET user == Trim(userType)
    IN  \E k \in 1..Len(chapterStudyTypes) :
            LET st == Trim(chapterStudyTypes[k])
            IN  \/ st = user
                \/ Includes(st, OnlineSpaced) /\ Includes(user, OnlineSpaced)
                \/ Includes(st, OnlineJoined) /\ Includes(user, OnlineJoined)
                \/ Includes(st, Center) /\ Includes(user, Center)

(* The study-type check skipped for free chapters. *)
StudyTypeBlocksPaidOnly(hasAccess, ch) ==
    /\ hasAccess
    /\ ~ch.isFree
    /\ userStudyType # <<>>
    /\ Len(ch.studyTypes) > 0
    /\ ~HasMatchingStudyType(ch.studyTypes, userStudyType)

(* hasAccess && userId && userStudyType && chapter.studyTypes.length > 0   *)
(* and no study type of the chapter matches.                               *)
StudyTypeBlocks(hasAccess, ch) ==
    /\ hasAccess
    /\ userStudyType # <<>>
    /\ Len(ch.studyTypes) > 0
    /\ ~HasMatchingStudyType(ch.studyTypes, userStudyType)

-----------------------------------------------------------------------------
(* Lock reasons of the content listing. *)

NoReason == [text |-> "null", title |-> NoId]
BuyCourseFirst == [text |-> "buyCourseFirst", title |-> NoId]
PassRequiredQuiz == [text |-> "passRequiredQuiz50", title |-> NoId]
PassQuizFirst(q) == [text |-> "passQuiz50First", title |-> q]

(* chapter.requirePassingQuiz && chapter.requiredQuizId *)
HasRequiredQuiz(ch) == ch.requirePassingQuiz /\ ch.requiredQuizId # NoId

(* The lock reason of the item at index of the listing; NoReason is        *)
(* isLocked = false.                                                       *)
ListingSequenceReason(hasAccess, content, index) ==
    IF hasAccess /\ PrevQuizBlocks(content, index)
    THEN PassQuizFirst(content[NearestPrevQuiz(content, index)].id)
    ELSE NoReason

ListingChapterReason(hasAccess, content, index) ==
    LET ch == chapters[content[index].id]
    IN  IF HasRequiredQuiz(ch) /\ ~hasAccess THEN BuyCourseFirst
        ELSE IF HasRequiredQuiz(ch) /\ RequiredQuizNotPassed(ch.requiredQuizId)
        THEN PassRequiredQuiz
        ELSE ListingSequenceReason(hasAccess, content, index)

ListingReason(hasAccess, content, index) ==
    IF content[index].type = "chapter"
    THEN ListingChapterReason(hasAccess, content, index)
    ELSE ListingSequenceReason(hasAccess, content, index)

(* allContentUnsorted.map((content, index) => ({...content, isLocked, lockReason})) *)
ContentWithLocks(session, chapterOrder, quizOrder) ==
    LET content == MergedContent(chapterOrder, quizOrder)
        hasAccess == ListingHasAccess(session)
    IN  [i \in 1..Len(content) |->
            LET reason == ListingReason(hasAccess, content, i)
            IN  [id |-> content[i].id, type |-> content[i].type,
                 position |-> content[i].position,
                 isLocked |-> reason # NoReason, lockReason |-> reason]]

(* The listing without locks. *)
ContentPlain(chapterOrder, quizOrder) ==
    LET content == MergedContent(chapterOrder, quizOrder)
    IN  [i \in 1..Len(content) |->
            [id |-> content[i].id, type |-> content[i].type,
             position |-> content[i].position]]

-----------------------------------------------------------------------------
(* First-content query. *)

FirstContentChapterLocked(hasAccess, content, index) ==
    LET ch == chapters[content[index].id]
    IN  \/ StudyTypeBlocks(hasAccess, ch)
        \/ HasRequiredQuiz(ch)
            /\ (~hasAccess \/ RequiredQuizNotPassed(ch.requiredQuizId))
        \/ hasAccess /\ PrevQuizBlocks(content, index)

(* The item is returned by the loop when it is reached. *)
FirstContentAccessible(hasAccess, content, index) ==
    IF content[index].type = "quiz"
    THEN hasAccess /\ ~PrevQuizBlocks(content, index)
    ELSE /\ ~FirstContentChapterLocked(hasAccess, content, index)
         /\ (hasAccess \/ chapters[content[index].id].isFree)

FirstContent(chapterOrder, quizOrder) ==
    LET content == MergedContent(chapterOrder, quizOrder)
        hasAccess == PriceOrPurchase
        hits == {i \in 1..Len(content) : FirstContentAccessible(hasAccess, content, i)}
    IN  IF hits = {} THEN [id |-> NoId, type |-> NoId]
        ELSE LET first == CHOOSE i \in hits : \A j \in hits : i <= j
             IN  [id |-> content[first].id, type |-> content[first].type]

-----------------------------------------------------------------------------
(* Chapter detail GET. *)

(* sortedContent.findIndex(c => c.id === chapterId && c.type === 'chapter'), *)
(* 1-based; 0 when the chapter is not in the published content.            *)
IndexOfChapter(content, chapterId) ==
    LET at == {i \in 1..Len(content) :
                  content[i].id = chapterId /\ content[i].type = "chapter"}
    IN  IF at = {} THEN 0 ELSE CHOOSE i \in at : \A j \in at : i <= j

(* hasAccess, and the nearest quiz before the chapter is not passed. *)
ChapterDetailLocked(chapterId, chapterOrder, quizOrder) ==
    LET content == MergedContent(chapterOrder, quizOrder)
        currentIndex == IndexOfChapter(content, chapterId)
    IN  /\ ChapterDetailHasAccess
        /\ currentIndex > 1
        /\ PrevQuizBlocks(content, currentIndex)

ChapterDetailStatus(session, chapterId, chapterOrder, quizOrder) ==
    IF ~session THEN 401
    ELSE IF chapterId \notin DOMAIN chapters
            \/ chapters[chapterId].courseId # CourseId THEN 404
    ELSE IF ChapterDetailLocked(chapterId, chapterOrder, quizOrder) THEN 403
    ELSE 200

-----------------------------------------------------------------------------
(* Object store helpers. File names, folders, keys and URLs are sequences  *)
(* of characters; SP is a white-space character.                           *)

MaxNameLen == 4
MaxParts == 2

(* The members of the class [a-zA-Z0-9.-] among the characters used. *)
SafeChars == {"p", "d", "f", "P", "h", "x", "u", "v", "1", "2", ".", "-"}

NameChars == {"p", "d", "f", "P", ".", SP}
FileNames == UNION {[1..n -> NameChars] : n \in 0..MaxNameLen}

(* Date.now() and randomUUID(), as strings. *)
Timestamps == {<<"1">>, <<"1", "2">>}
RandomIds == {<<"u">>, <<"u", "-", "v">>}

(* Values of the folder form field; <<>> is no folder. *)
Folders == {<<>>, <<"v">>, <<SP, "v", SP>>, <<"/", "v">>, <<SP>>}

OctetStream == "application/octet-stream"
Fallbacks == {OctetStream, "text/plain"}

EXT_TO_MIME ==
    (<<"m", "p", "4">> :> "video/mp4") @@
    (<<"w", "e", "b", "m">> :> "video/webm") @@
    (<<"o", "g", "g">> :> "video/ogg") @@
    (<<"m", "o", "v">> :> "video/mp4") @@
    (<<"m", "p", "3">> :> "audio/mpeg") @@
    (<<"w", "a", "v">> :> "audio/wav") @@
    (<<"p", "n", "g">> :> "image/png") @@
    (<<"j", "p", "g">> :> "image/jpeg") @@
    (<<"j", "p", "e", "g">> :> "image/jpeg") @@
    (<<"g", "i", "f">> :> "image/gif") @@
    (<<"w", "e", "b", "p">> :> "image/webp") @@
    (<<"p", "d", "f">> :> "application/pdf")

(* String.prototype.toLowerCase, on the upper-case letters used. *)
ToLowerCase(s) ==
    [i \in 1..Len(s) |-> IF s[i] = "P" THEN "p" ELSE s[i]]

(* s.split("."): the pieces of s between its dots, at least one piece. *)
RECURSIVE SplitDot(_, _, _)
SplitDot(pieces, piece, rest) ==
    IF rest = <<>> THEN Append(pieces, piece)
    ELSE IF Head(rest) = "." THEN SplitDot(Append(pieces, piece), <<>>, Tail(rest))
    ELSE SplitDot(pieces, Append(piece, Head(rest)), Tail(rest))

(* filename.toLowerCase().split(".").pop() || "" *)
Extension(filename) ==
    LET pieces == SplitDot(<<>>, <<>>, ToLowerCase(filename))
    IN  pieces[Len(pieces)]

(* EXT_TO_MIME[ext] || fallback; the inherited members of a plain object   *)
(* have names longer than the file names considered.                       *)
guessContentType(filename, fallback) ==
    LET ext == Extension(filename)
    IN  IF ext \in DOMAIN EXT_TO_MIME THEN EXT_TO_MIME[ext] ELSE fallback

(* The replacement with the dot left out of the character class. *)
sanitizeFilenameNoDot(originalName) ==
    [i \in 1..Len(originalName) |->
        IF originalName[i] \in SafeChars \ {"."} THEN originalName[i] ELSE "_"]

(* originalName.replace(/[^a-zA-Z0-9.-]/g, "_") *)
sanitizeFilename(originalName) ==
    [i \in 1..Len(originalName) |->
        IF originalName[i] \in SafeChars THEN originalName[i] ELSE "_"]

(* folder ? `${folder}/${ts}-${id}-${safe}` : `${ts}-${id}-${safe}`, with  *)
(* ts and id the values Date.now() and randomUUID() returned.              *)
generateR2Key(originalName, folder, ts, id) ==
    LET safe == sanitizeFilename(originalName)
        tail == ts \o <<"-">> \o id \o <<"-">> \o safe
    IN  IF folder # <<>> THEN folder \o <<"/">> \o tail ELSE tail

(* The join with the separator always inserted. *)
joinPublicUrlAlways(publicBaseUrl, key) ==
    IF publicBaseUrl = <<>> THEN key
    ELSE publicBaseUrl \o <<"/">> \o key

(* if (!publicBaseUrl) return key;                                         *)
(* publicBaseUrl.endsWith("/") ? base + key : base + "/" + key             *)
joinPublicUrl(publicBaseUrl, key) ==
    IF publicBaseUrl = <<>> THEN key
    ELSE IF publicBaseUrl[Len(publicBaseUrl)] = "/" THEN publicBaseUrl \o key
    ELSE publicBaseUrl \o <<"/">> \o key

(* R2_BUCKET_NAME and R2_PUBLIC_URL: process.env value ?? "". *)
BucketNames == {"", "bucket"}
PublicUrls == {<<>>, <<"h", ":", "/", "/", "x">>, <<"h", ":", "/", "/", "x", "/">>}

-----------------------------------------------------------------------------
(* The upload handler's computations. *)

(* 5 * 1024 * 1024: the multipart threshold and part size. *)
FiveMiB == 5 * 1024 * 1024

(* The highest percentage a progress event carries. *)
MaxPercent == 99

(* An absent number: partSize undefined, progress.loaded or               *)
(* progress.total not reported.                                            *)
Undefined == -1

FileSizes == {0, FiveMiB - 1, FiveMiB + 1} \cup {k * FiveMiB : k \in 1..MaxParts}
FileTypes == {"", OctetStream, "video/mp4"}

(* The part size option with the threshold included. *)
PartSizeOptionFrom(size) ==
    IF size >= FiveMiB THEN FiveMiB ELSE Undefined

(* partSize: file.size > 5 * 1024 * 1024 ? 5 * 1024 * 1024 : undefined *)
PartSizeOption(size) ==
    IF size > FiveMiB THEN FiveMiB ELSE Undefined

(* The transfer started by upload.done(): without the option the part size *)
(* is the store's minimum; a body larger than one part goes in parts, any  *)
(* other in a single put.                                                  *)
EffectivePartSize(partSize) ==
    IF partSize = Undefined THEN FiveMiB ELSE partSize

TransferMode(size, partSize) ==
    IF size > EffectivePartSize(partSize) THEN "multipart" ELSE "put"

NumParts(size, partSize) ==
    IF TransferMode(size, partSize) = "put" THEN 1
    ELSE (size + EffectivePartSize(partSize) - 1) \div EffectivePartSize(partSize)

BytesSent(size, partSize, partsSent) ==
    IF TransferMode(size, partSize) = "put"
    THEN (IF partsSent = 0 THEN 0 ELSE size)
    ELSE IF partsSent * EffectivePartSize(partSize) < size
    THEN partsSent * EffectivePartSize(partSize)
    ELSE size

(* Math.round((loaded / total) * 100) for loaded >= 0 and total > 0: the   *)
(* nearest integer, a half rounded up.                                     *)
MathRound(loaded, total) ==
    LET q == (100 * loaded) \div total
        r == (100 * loaded) % total
    IN  IF 2 * r >= total THEN q + 1 ELSE q

Min(a, b) == IF a < b THEN a ELSE b
Max(a, b) == IF a > b THEN a ELSE b

(* The percentage clamped to 100 instead of 99. *)
PercentTo100(loaded, total) ==
    Max(0, Min(MaxPercent + 1, MathRound(loaded, total)))

(* Math.max(0, Math.min(99, raw)) *)
Percent(loaded, total) ==
    Max(0, Min(MaxPercent, MathRound(loaded, total)))

(* controller.enqueue and controller.close throw once the stream is        *)
(* closed or cancelled.                                                    *)
CanEnqueue(u) == ~u.closed /\ ~u.cancelled
Enqueue(u, event) == [u EXCEPT !.events = Append(@, event)]
Close(u) == [u EXCEPT !.closed = TRUE]

ProgressEvent(percent, loaded, total) ==
    [type |-> "progress", progress |-> percent, loaded |-> loaded, total |-> total]

(* upload.on("httpUploadProgress", ...): the upload record after the       *)
(* callback ran on one report.                                             *)
OnProgress(u, reportedLoaded, reportedTotal) ==
    LET loaded == IF reportedLoaded = Undefined THEN 0 ELSE reportedLoaded
        total == IF reportedTotal = Undefined THEN u.size ELSE reportedTotal
    IN  IF total = 0 THEN u
        ELSE IF Percent(loaded, total) <= u.lastPercent THEN u
        ELSE LET v == [u EXCEPT !.lastPercent = Percent(loaded, total)]
             IN  IF CanEnqueue(v)
                 THEN Enqueue(v, ProgressEvent(Percent(loaded, total), loaded, total))
                 ELSE v

DefaultError == "Failed to upload file"
ErrorEvent(message) ==
    [type |-> "error", error |-> IF message = "" THEN DefaultError ELSE message]

(* The catch block with controller.close() left out. *)
CatchUploadOpen(u, message) ==
    IF CanEnqueue(u) THEN Enqueue(u, ErrorEvent(message)) ELSE u

(* catch (err): enqueue { error: err?.message || "Failed to upload file" } *)
(* and close; on a cancelled stream the enqueue throws out of start().     *)
CatchUpload(u, message) ==
    IF CanEnqueue(u) THEN Close(Enqueue(u, ErrorEvent(message))) ELSE u

DoneEvent(u) ==
    [type |-> "done", key |-> u.key, url |-> joinPublicUrl(env.publicUrl, u.key),
     name |-> u.name, contentType |-> u.contentType, size |-> u.size]

(* After await upload.done(): enqueue the done event and close; a throwing *)
(* enqueue lands in the catch block.                                       *)
FinishUpload(u) ==
    IF CanEnqueue(u) THEN Close(Enqueue(u, DoneEvent(u)))
    ELSE CatchUpload(u, "Invalid state")

UploadIdle ==
    [phase |-> "idle", status |-> 0, body |-> "", name |-> <<>>, size |-> 0,
     fileType |-> "", key |-> <<>>, contentType |-> "", partSize |-> Undefined,
     lastPercent |-> 0, events |-> <<>>, closed |-> FALSE, cancelled |-> FALSE,
     outcome |-> "none"]

StoreIdle ==
    [mode |-> "none", sessionOpen |-> FALSE, partsSent |-> 0, object |-> FALSE]

NoCall == [fn |-> "none"]

(* No upload requested and no helper called. *)
R2Idle ==
    /\ env = [bucket |-> "bucket", publicUrl |-> <<"h", ":", "/", "/", "x">>]
    /\ upload = UploadIdle
    /\ store = StoreIdle
    /\ call = NoCall

ClientIdle ==
    [phase |-> "idle", uploading |-> FALSE, progress |-> 0, received |-> <<>>,
     onChange |-> <<>>, toast |-> "none"]

(* No quiz started, no file chosen in the component and no progress rows. *)
RestIdle ==
    /\ maxAttempts = <<>>
    /\ quizSettings = <<>>
    /\ quizAttempts = <<>>
    /\ requests = <<>>
    /\ started = 0
    /\ client = ClientIdle
    /\ userProgress = <<>>
    /\ createdAt = <<>>

-----------------------------------------------------------------------------
(* Rows the tables can hold. *)

RequiredQuizSettings ==
    {r \in [requirePassingQuiz : BOOLEAN, requiredQuizId : QuizIds \cup {NoId}] :
        r.requirePassingQuiz \/ r.requiredQuizId = NoId}

ChapterRows(courseIds, published, studyTypeLists) ==
    {[courseId |-> c, position |-> p, isFree |-> f, isPublished |-> b,
      studyTypes |-> st, requirePassingQuiz |-> r.requirePassingQuiz,
      requiredQuizId |-> r.requiredQuizId] :
        c \in courseIds, p \in Positions, f \in BOOLEAN, b \in published,
        st \in studyTypeLists, r \in RequiredQuizSettings}

QuizRows(courseIds, published) ==
    [courseId : courseIds, position : Positions, isPublished : published]

ResultLists ==
    UNION {[1..n -> Percentages] : n \in 0..MaxResults}

NoResponse == [handler |-> "none"]

(* The stored data of a paid, published course with one published chapter  *)
(* and two published quizzes: every position, quiz requirement and result  *)
(* history, with and without an ACTIVE purchase.                           *)
Init ==
    /\ course = [price |-> 100, isPublished |-> TRUE]
    /\ purchase \in {"NONE", "ACTIVE"}
    /\ chapters \in [{"c1"} -> ChapterRows({CourseId}, {TRUE}, {<<>>})]
    /\ quizzes \in [QuizIds -> QuizRows({CourseId}, {TRUE})]
    /\ quizResults \in [QuizIds -> ResultLists]
    /\ userStudyType = <<>>
    /\ resp = NoResponse
    /\ R2Idle
    /\ RestIdle

-----------------------------------------------------------------------------
(* Requests. Each handler answers one request; session is whether the      *)
(* caller is the logged-in learner.                                        *)

CourseAccessGETEnrolling(session) ==
    /\ resp' = [handler |-> "access", session |-> session, status |-> 200,
                hasAccess |-> TRUE, hasPurchase |-> TRUE]
    /\ purchase' = "ACTIVE"
    /\ UNCHANGED <<course, chapters, quizzes, quizResults, userStudyType, r2, others>>

(* GET /courses/{courseId}/access *)
CourseAccessGET(session) ==
    /\ resp' = IF ~session THEN [handler |-> "access", session |-> session, status |-> 401]
               ELSE IF ~course.isPublished
               THEN [handler |-> "access", session |-> session, status |-> 404]
               ELSE [handler |-> "access", session |-> session, status |-> 200,
                     hasAccess |-> ActivePurchase, hasPurchase |-> ActivePurchase]
    /\ UNCHANGED <<data, r2, others>>

(* GET /courses/{courseId}/content, without locks *)
CourseContentGET(session) ==
    /\ \E co \in OrderedByPosition(PublishedChapters, chapters),
          qo \in OrderedByPosition(PublishedQuizzes, quizzes) :
            resp' = [handler |-> "content", session |-> session, status |-> 200,
                     hasAccess |-> ListingHasAccess(session),
                     items |-> ContentPlain(co, qo)]
    /\ UNCHANGED <<data, r2, others>>

(* GET /courses/{courseId}/content, with isLocked and lockReason *)
CourseContentLocksGET(session) ==
    /\ \E co \in OrderedByPosition(PublishedChapters, chapters),
          qo \in OrderedByPosition(PublishedQuizzes, quizzes) :
            resp' = [handler |-> "contentLocks", session |-> session, status |-> 200,
                     hasAccess |-> ListingHasAccess(session),
                     items |-> ContentWithLocks(session, co, qo)]
    /\ UNCHANGED <<data, r2, others>>

(* GET /courses/{courseId}/first-content *)
FirstContentGET(session) ==
    /\ IF ~session
       THEN resp' = [handler |-> "firstContent", session |-> session, status |-> 401]
       ELSE IF ~course.isPublished
       THEN resp' = [handler |-> "firstContent", session |-> session, status |-> 404]
       ELSE \E co \in OrderedByPosition(PublishedChapters, chapters),
               qo \in OrderedByPosition(PublishedQuizzes, quizzes) :
                resp' = [handler |-> "firstContent", session |-> session, status |-> 200,
                         hasAccess |-> PriceOrPurchase,
                         content |-> MergedContent(co, qo),
                         first |-> FirstContent(co, qo)]
    /\ UNCHANGED <<data, r2, others>>

(* GET /courses/{courseId}/chapters/{chapterId} *)
ChapterGET(session, chapterId) ==
    /\ \E co \in OrderedByPosition(PublishedChapters, chapters),
          qo \in OrderedByPosition(PublishedQuizzes, quizzes) :
            LET status == ChapterDetailStatus(session, chapterId, co, qo)
            IN  resp' = [handler |-> "chapter", session |-> session,
                         chapterId |-> chapterId, status |-> status,
                         hasAccess |-> ChapterDetailHasAccess,
                         isLocked |-> status = 403,
                         sortedContent |-> MergedContent(co, qo)]
    /\ UNCHANGED <<data, r2, others>>

(* PATCH /courses/{courseId}/chapters/{chapterId} by a teacher or admin,   *)
(* here with a new position; the update of a row that does not exist       *)
(* throws and is answered 500.                                             *)
ChapterPATCH(chapterId, position) ==
    /\ IF chapterId \in DOMAIN chapters /\ chapters[chapterId].courseId = CourseId
       THEN /\ chapters' = [chapters EXCEPT ![chapterId].position = position]
            /\ resp' = [handler |-> "chapterPatch", status |-> 200]
       ELSE /\ chapters' = chapters
            /\ resp' = [handler |-> "chapterPatch", status |-> 500]
    /\ UNCHANGED <<course, purchase, quizzes, quizResults, userStudyType, r2, others>>

Next ==
    \/ \E session \in BOOLEAN : CourseContentLocksGET(session)
    \/ \E session \in BOOLEAN : FirstContentGET(session)
    \/ \E session \in BOOLEAN, chapterId \in ChapterIds : ChapterGET(session, chapterId)
    \/ \E chapterId \in ChapterIds, position \in Positions : ChapterPATCH(chapterId, position)

Spec == Init /\ [][Next]_vars

(* The content listing alone, over the same stored data. *)
NextListing ==
    \E session \in BOOLEAN : CourseContentLocksGET(session)

SpecListing == Init /\ [][NextListing]_vars

-----------------------------------------------------------------------------
(* Access: every price, purchase status and publication state of the       *)
(* course, over a catalog of one chapter and one quiz.                     *)

InitAccess ==
    /\ course \in [price : Prices, isPublished : BOOLEAN]
    /\ purchase \in PurchaseStatuses
    /\ chapters \in [{"c1"} -> {r \in ChapterRows({CourseId}, {TRUE}, {<<>>}) :
                                    ~r.requirePassingQuiz}]
    /\ quizzes \in [{"q1"} -> QuizRows({CourseId}, {TRUE})]
    /\ quizResults \in [{"q1"} -> ResultLists]
    /\ userStudyType = <<>>
    /\ resp = NoResponse
    /\ R2Idle
    /\ RestIdle

NextAccess ==
    \/ \E session \in BOOLEAN : CourseAccessGET(session)
    \/ \E session \in BOOLEAN : CourseContentGET(session)
    \/ \E session \in BOOLEAN : CourseContentLocksGET(session)
    \/ \E session \in BOOLEAN : FirstContentGET(session)
    \/ \E session \in BOOLEAN, chapterId \in ChapterIds : ChapterGET(session, chapterId)

SpecAccess == InitAccess /\ [][NextAccess]_vars

-----------------------------------------------------------------------------
(* Catalog: a chapter and two quizzes, the chapter and the second quiz     *)
(* published or not and of this course or another.                         *)

InitCatalog ==
    /\ course = [price |-> 100, isPublished |-> TRUE]
    /\ purchase \in {"NONE", "ACTIVE"}
    /\ chapters \in [{"c1"} -> {r \in ChapterRows({CourseId, OtherCourseId}, BOOLEAN, {<<>>}) :
                                    ~r.isFree}]
    /\ quizzes \in {f \in [QuizIds -> QuizRows({CourseId, OtherCourseId}, BOOLEAN)] :
                        f["q1"].courseId = CourseId /\ f["q1"].isPublished}
    /\ quizResults \in [QuizIds -> {<<>>, <<PassPercentage>>}]
    /\ userStudyType = <<>>
    /\ resp = NoResponse
    /\ R2Idle
    /\ RestIdle

NextCatalog ==
    \/ \E session \in BOOLEAN : CourseContentGET(session)
    \/ \E session \in BOOLEAN : CourseContentLocksGET(session)
    \/ \E chapterId \in ChapterIds, position \in Positions : ChapterPATCH(chapterId, position)

SpecCatalog == InitCatalog /\ [][NextCatalog]_vars

-----------------------------------------------------------------------------
(* Study types: a chapter restricted to study types and a learner with a   *)
(* study type, over a catalog of one chapter and one quiz.                 *)

ChapterStudyTypeLists ==
    {<<>>, <<Center>>, <<OnlineJoined>>, <<Center, OnlineJoined>>, <<Center \o <<SP>>>>}

UserStudyTypes ==
    {<<>>, Center, OnlineJoined, OnlineSpaced, <<SP>> \o Center, Center \o <<SP, "X">>}

InitStudy ==
    /\ course = [price |-> 100, isPublished |-> TRUE]
    /\ purchase \in {"NONE", "ACTIVE"}
    /\ chapters \in [{"c1"} -> {r \in ChapterRows({CourseId}, {TRUE}, ChapterStudyTypeLists) :
                                    ~r.requirePassingQuiz}]
    /\ quizzes \in [{"q1"} -> QuizRows({CourseId}, {TRUE})]
    /\ quizResults \in [{"q1"} -> ResultLists]
    /\ userStudyType \in UserStudyTypes
    /\ resp = NoResponse
    /\ R2Idle
    /\ RestIdle

NextStudy ==
    \/ \E session \in BOOLEAN : CourseContentLocksGET(session)
    \/ \E session \in BOOLEAN : FirstContentGET(session)

SpecStudy == InitStudy /\ [][NextStudy]_vars

-----------------------------------------------------------------------------
(* POST /api/r2/upload and the transfer it starts. One upload is followed  *)
(* from its request to the end of its response stream.                     *)

BodyKinds == {"file", "nofile", "malformed"}
RejectMessages == {"", "AccessDenied"}

(* progress.loaded and progress.total as the transfer may report them,     *)
(* next to the bytes really sent.                                          *)
ReportedLoaded == {Undefined, 0, 1, 2, 299, 301}
ReportedTotals == {Undefined, 0, 3, 300}

(* A stored course without content, for the behaviours of the upload. *)
GateIdle ==
    /\ course = [price |-> 100, isPublished |-> TRUE]
    /\ purchase = "NONE"
    /\ chapters = <<>>
    /\ quizzes = <<>>
    /\ quizResults = <<>>
    /\ userStudyType = <<>>
    /\ resp = NoResponse

(* The handler up to await upload.done(): the JSON answers 401, 400 and    *)
(* 500, or the event stream, whose start() fails at once without a bucket  *)
(* name and otherwise creates the Upload.                                  *)
UploadPOST(session, bodyKind, name, size, fileType, folder, ts, id) ==
    /\ upload.phase = "idle"
    /\ IF ~session
       THEN /\ upload' = [UploadIdle EXCEPT !.phase = "responded", !.status = 401,
                                            !.body = "Unauthorized"]
            /\ store' = store
       ELSE IF bodyKind = "malformed"
       THEN /\ upload' = [UploadIdle EXCEPT !.phase = "responded", !.status = 500,
                                            !.body = "error.message"]
            /\ store' = store
       ELSE IF bodyKind = "nofile"
       THEN /\ upload' = [UploadIdle EXCEPT !.phase = "responded", !.status = 400,
                                            !.body = "Missing file"]
            /\ store' = store
       ELSE LET u == [UploadIdle EXCEPT
                        !.status = 200, !.name = name, !.size = size,
                        !.fileType = fileType,
                        !.key = generateR2Key(name, Trim(folder), ts, id),
                        !.contentType =
                            IF fileType # "" /\ fileType # OctetStream THEN fileType
                            ELSE guessContentType(name, OctetStream)]
            IN  IF env.bucket = ""
                THEN /\ upload' = [CatchUpload(u, "R2_BUCKET_NAME is not set") EXCEPT
                                        !.phase = "finished", !.outcome = "config"]
                     /\ store' = store
                ELSE /\ upload' = [u EXCEPT !.phase = "uploading",
                                            !.partSize = PartSizeOption(size)]
                     /\ store' = [StoreIdle EXCEPT
                                    !.mode = TransferMode(size, PartSizeOption(size))]
    /\ UNCHANGED <<data, resp, env, call, others>>

(* The transfer sends its next part (the whole body of a single put); the  *)
(* first part of a multipart transfer opens the multipart session.         *)
StoreSendPart ==
    /\ upload.phase = "uploading"
    /\ store.partsSent < NumParts(upload.size, upload.partSize)
    /\ store' = [store EXCEPT !.partsSent = @ + 1,
                              !.sessionOpen = (store.mode = "multipart")]
    /\ UNCHANGED <<data, resp, env, upload, call, others>>

(* The transfer reports progress and the handler's callback runs. *)
HttpUploadProgress(loaded, total) ==
    /\ upload.phase = "uploading"
    /\ store.partsSent > 0
    /\ upload' = OnProgress(upload, loaded, total)
    /\ UNCHANGED <<data, resp, env, store, call, others>>

(* upload.done() resolves: the object is stored under the key and the      *)
(* handler emits the done event.                                           *)
StoreDone ==
    /\ upload.phase = "uploading"
    /\ store.partsSent = NumParts(upload.size, upload.partSize)
    /\ store' = [store EXCEPT !.object = TRUE, !.sessionOpen = FALSE]
    /\ upload' = [FinishUpload(upload) EXCEPT !.phase = "finished",
                                              !.outcome = "resolved"]
    /\ UNCHANGED <<data, resp, env, call, others>>

(* upload.done() rejects with a message: the handler's catch block runs.   *)
(* The handler makes no abort call; cleaned is whether the transfer itself *)
(* got an open multipart session aborted at the store.                     *)
StoreReject(message, cleaned) ==
    /\ upload.phase = "uploading"
    /\ store' = [store EXCEPT !.sessionOpen = @ /\ ~cleaned]
    /\ upload' = [CatchUpload(upload, message) EXCEPT !.phase = "finished",
                                                      !.outcome = "rejected"]
    /\ UNCHANGED <<data, resp, env, call, others>>

(* The client disconnects: the response stream is cancelled. The stream's  *)
(* source has no cancel method.                                            *)
ClientCancel ==
    /\ upload.phase = "uploading"
    /\ ~upload.cancelled
    /\ upload' = [upload EXCEPT !.cancelled = TRUE]
    /\ UNCHANGED <<data, resp, env, store, call, others>>

UploadName == <<"P", ".", "p">>

InitUpload ==
    /\ GateIdle
    /\ env \in [bucket : BucketNames, publicUrl : {<<>>, <<"h", ":", "/", "/", "x">>}]
    /\ upload = UploadIdle
    /\ store = StoreIdle
    /\ call = NoCall
    /\ RestIdle

NextUpload ==
    \/ \E session \in BOOLEAN, bodyKind \in BodyKinds, size \in FileSizes :
            UploadPOST(session, bodyKind, UploadName, size, "", <<>>, <<"1">>, <<"u">>)
    \/ StoreSendPart
    \/ \E loaded \in ReportedLoaded
                     \cup {BytesSent(upload.size, upload.partSize, store.partsSent)},
          total \in ReportedTotals :
            HttpUploadProgress(loaded, total)
    \/ StoreDone
    \/ \E message \in RejectMessages, cleaned \in BOOLEAN : StoreReject(message, cleaned)
    \/ ClientCancel

SpecUpload == InitUpload /\ [][NextUpload]_vars

(* The same upload over every file name, folder and public base URL, with  *)
(* a store that accepts it.                                                *)
InitUploadUrl ==
    /\ GateIdle
    /\ env \in [bucket : {"bucket"}, publicUrl : PublicUrls]
    /\ upload = UploadIdle
    /\ store = StoreIdle
    /\ call = NoCall
    /\ RestIdle

NextUploadUrl ==
    \/ upload.phase = "idle" /\ \E name \in FileNames, folder \in Folders :
            UploadPOST(TRUE, "file", name, FiveMiB, "", folder, <<"1">>, <<"u">>)
    \/ StoreSendPart
    \/ StoreDone

SpecUploadUrl == InitUploadUrl /\ [][NextUploadUrl]_vars

-----------------------------------------------------------------------------
(* Calls of the key and content-type helpers on every file name. *)

GenerateR2KeyCall(originalName, folder, ts, id) ==
    /\ call = NoCall
    /\ call' = [fn |-> "generateR2Key", originalName |-> originalName,
                folder |-> folder, ts |-> ts, id |-> id,
                result |-> generateR2Key(originalName, folder, ts, id)]
    /\ UNCHANGED <<data, resp, env, upload, store, others>>

GuessContentTypeCall(filename, fallback) ==
    /\ call = NoCall
    /\ call' = [fn |-> "guessContentType", filename |-> filename,
                fallback |-> fallback,
                result |-> guessContentType(filename, fallback)]
    /\ UNCHANGED <<data, resp, env, upload, store, others>>

InitHelpers ==
    /\ GateIdle
    /\ R2Idle
    /\ RestIdle

NextHelpers ==
    \/ call = NoCall /\ \E originalName \in FileNames, folder \in Folders,
          ts \in Timestamps, id \in RandomIds :
            GenerateR2KeyCall(originalName, folder, ts, id)
    \/ call = NoCall /\ \E filename \in FileNames, fallback \in Fallbacks :
            GuessContentTypeCall(filename, fallback)

SpecHelpers == InitHelpers /\ [][NextHelpers]_vars

-----------------------------------------------------------------------------
(* The catch blocks of the gate's route handlers: a request during which   *)
(* a call inside the handler's try block throws.                           *)

(* What is thrown: an Error with a message and a stack, or another value. *)
ThrownValues ==
    {[isError |-> TRUE, message |-> m, stack |-> "Error: " \o m \o " at GET"] :
        m \in {"Can't reach database server", "Invalid invocation"}}
    \cup {[isError |-> FALSE, message |-> "", stack |-> ""]}

InternalError == "Internal Error"

(* The catch block of the course access GET. *)
CourseAccessGETCatch(error) ==
    /\ resp' = [handler |-> "access", status |-> 500,
                body |-> IF error.isError
                         THEN "Internal Error: " \o error.message
                         ELSE InternalError]
    /\ UNCHANGED <<data, r2, others>>

(* The catch block of the two content listings. *)
CourseContentGETCatch(error) ==
    /\ resp' = [handler |-> "content", status |-> 500, body |-> InternalError]
    /\ UNCHANGED <<data, r2, others>>

CourseContentLocksGETCatch(error) ==
    /\ resp' = [handler |-> "contentLocks", status |-> 500, body |-> InternalError]
    /\ UNCHANGED <<data, r2, others>>

(* The catch block of the first-content GET. *)
FirstContentGETCatch(error) ==
    /\ resp' = [handler |-> "firstContent", status |-> 500, body |-> InternalError]
    /\ UNCHANGED <<data, r2, others>>

(* The catch block of the chapter detail GET. *)
ChapterGETCatch(error) ==
    /\ resp' = [handler |-> "chapter", status |-> 500,
                body |-> IF error.isError
                         THEN "Internal Error: " \o error.message
                                \o "\nStack: " \o error.stack
                         ELSE InternalError]
    /\ UNCHANGED <<data, r2, others>>

NextErrors ==
    \/ \E error \in ThrownValues : CourseAccessGETCatch(error)
    \/ \E error \in ThrownValues : CourseContentGETCatch(error)
    \/ \E error \in ThrownValues : CourseContentLocksGETCatch(error)
    \/ \E error \in ThrownValues : FirstContentGETCatch(error)
    \/ \E error \in ThrownValues : ChapterGETCatch(error)

SpecErrors == InitAccess /\ [][NextErrors]_vars

-----------------------------------------------------------------------------
(* GET /courses/{courseId}/quizzes/{quizId}: the learner starts a quiz.    *)
(* The handler is followed through its database calls: its reads, the      *)
(* delete of the learner's earlier attempt row and the create of the new   *)
(* one. QuizAttempt is unique per (student, quiz).                         *)

MaxAttempts == 2
MaxStarted == 3

AttemptStates == {"none", "incomplete", "completed"}

IdleRequest ==
    [pc |-> "idle", quizId |-> NoId, status |-> 0, submitted |-> 0,
     existing |-> "none"]

(* db.quiz.findFirst({id, courseId, isPublished: true}) *)
QuizFound(quizId) ==
    /\ quizId \in DOMAIN quizzes
    /\ quizzes[quizId].courseId = CourseId
    /\ quizzes[quizId].isPublished

(* existingResults.length *)
SubmittedAttempts(quizId) == Len(quizResults[quizId])

(* existingAttempt && !existingAttempt.completedAt *)
HasIncompleteAttempt(existing) == existing = "incomplete"

TotalAttempts(submitted, existing) ==
    submitted + (IF HasIncompleteAttempt(existing) THEN 1 ELSE 0)

AttemptsExhaustedOver(total, max) == total > max

AttemptsExhausted(total, max) == total >= max

RetryReason(existing, submitted) ==
    IF existing = "completed"
    THEN (IF submitted > 0 THEN "submitted" ELSE "completed")
    ELSE IF existing = "incomplete" THEN "incomplete"
    ELSE "null"

RemainingAttemptsInclusive(max, currentAttemptNumber) ==
    Max(0, max - currentAttemptNumber + 1)

RemainingAttempts(max, currentAttemptNumber) ==
    Max(0, max - currentAttemptNumber)

(* The status the handler answers before any write, or 0 when it goes on   *)
(* to its writes.                                                          *)
QuizGETEarlyStatus(session, quizId) ==
    IF ~session THEN 401
    ELSE IF purchase = "NONE" THEN 403
    ELSE IF ~QuizFound(quizId) THEN 404
    ELSE LET total == TotalAttempts(SubmittedAttempts(quizId), quizAttempts[quizId])
         IN  IF AttemptsExhausted(total, maxAttempts[quizId]) THEN 400
             ELSE IF HasIncompleteAttempt(quizAttempts[quizId])
                     /\ ~(total < maxAttempts[quizId]) THEN 400
             ELSE 0

(* The request arrives: authentication, the purchase and quiz lookups, the *)
(* reads of the learner's results and attempt row, and the limit check.    *)
QuizGETStart(slot, session, quizId) ==
    /\ requests[slot].pc \in {"idle", "done"}
    /\ started < MaxStarted
    /\ LET status == QuizGETEarlyStatus(session, quizId)
       IN  IF status # 0
           THEN /\ requests' = [requests EXCEPT ![slot] =
                        [IdleRequest EXCEPT !.pc = "done", !.quizId = quizId,
                                            !.status = status]]
                /\ resp' = [handler |-> "quiz", slot |-> slot, quizId |-> quizId,
                            status |-> status, questions |-> FALSE]
           ELSE /\ requests' = [requests EXCEPT ![slot] =
                        [pc |-> IF quizAttempts[quizId] # "none" THEN "delete"
                                ELSE "create",
                         quizId |-> quizId, status |-> 0,
                         submitted |-> SubmittedAttempts(quizId),
                         existing |-> quizAttempts[quizId]]]
                /\ resp' = resp
    /\ UNCHANGED <<data, r2, maxAttempts, quizSettings, quizAttempts, started,
                   client, userProgress, createdAt>>

(* db.quizAttempt.delete of the row read before; the delete of a row that  *)
(* is no longer there throws and the catch block answers 500.              *)
QuizGETDelete(slot) ==
    /\ requests[slot].pc = "delete"
    /\ LET quizId == requests[slot].quizId
       IN  IF quizAttempts[quizId] = "none"
           THEN /\ requests' = [requests EXCEPT ![slot].pc = "done",
                                                ![slot].status = 500]
                /\ resp' = [handler |-> "quiz", slot |-> slot, quizId |-> quizId,
                            status |-> 500, questions |-> FALSE]
                /\ quizAttempts' = quizAttempts
           ELSE /\ requests' = [requests EXCEPT ![slot].pc = "create"]
                /\ resp' = resp
                /\ quizAttempts' = [quizAttempts EXCEPT ![quizId] = "none"]
    /\ UNCHANGED <<data, r2, maxAttempts, quizSettings, started,
                   client, userProgress, createdAt>>

(* db.quizAttempt.create and the 200 response; the create of a second row  *)
(* for the pair violates the unique constraint, throws, and the catch      *)
(* block answers 500.                                                      *)
QuizGETCreate(slot) ==
    /\ requests[slot].pc = "create"
    /\ LET quizId == requests[slot].quizId
           currentAttemptNumber == requests[slot].submitted + 1
       IN  IF quizAttempts[quizId] # "none"
           THEN /\ requests' = [requests EXCEPT ![slot].pc = "done",
                                                ![slot].status = 500]
                /\ resp' = [handler |-> "quiz", slot |-> slot, quizId |-> quizId,
                            status |-> 500, questions |-> FALSE]
                /\ UNCHANGED <<quizAttempts, started>>
           ELSE /\ requests' = [requests EXCEPT ![slot].pc = "done",
                                                ![slot].status = 200]
                /\ quizAttempts' = [quizAttempts EXCEPT ![quizId] = "incomplete"]
                /\ started' = started + 1
                /\ resp' = [handler |-> "quiz", slot |-> slot, quizId |-> quizId,
                            status |-> 200, questions |-> TRUE,
                            currentAttempt |-> currentAttemptNumber,
                            maxAttempts |-> maxAttempts[quizId],
                            previousAttempts |-> requests[slot].submitted,
                            isRetry |-> requests[slot].existing # "none",
                            retryReason |-> RetryReason(requests[slot].existing,
                                                        requests[slot].submitted),
                            remainingAttempts |->
                                RemainingAttempts(maxAttempts[quizId],
                                                  currentAttemptNumber)]
    /\ UNCHANGED <<data, r2, maxAttempts, quizSettings,
                   client, userProgress, createdAt>>

(* The learner submits the answers of the started attempt: one QuizResult  *)
(* is produced for the attempt, which is then completed.                   *)
QuizSubmit(quizId, percentage) ==
    /\ quizId \in DOMAIN quizAttempts
    /\ quizAttempts[quizId] = "incomplete"
    /\ Len(quizResults[quizId]) < MaxResults
    /\ quizResults' = [quizResults EXCEPT ![quizId] = Append(@, percentage)]
    /\ quizAttempts' = [quizAttempts EXCEPT ![quizId] = "completed"]
    /\ resp' = [handler |-> "quizSubmit", quizId |-> quizId, status |-> 200]
    /\ UNCHANGED <<course, purchase, chapters, quizzes, userStudyType, r2,
                   maxAttempts, quizSettings, requests, started,
                   client, userProgress, createdAt>>

-----------------------------------------------------------------------------
(* /api/quizzes/{quizId}/student-settings: a teacher or admin stores or    *)
(* removes the learner's own maxAttempts for a quiz.                       *)

Roles == {"NONE", "USER", "TEACHER", "ADMIN"}
SettingValues == 0..MaxAttempts

StudentSettingsStatus(role, hasStudentId, quizId, valid) ==
    IF role = "NONE" THEN 401
    ELSE IF role # "ADMIN" /\ role # "TEACHER" THEN 403
    ELSE IF ~hasStudentId \/ ~valid THEN 400
    ELSE IF quizId \notin DOMAIN quizzes THEN 404
    ELSE 200

(* POST: upsert of the QuizStudentSettings row *)
StudentSettingsPOST(role, hasStudentId, quizId, value) ==
    /\ LET status == StudentSettingsStatus(role, hasStudentId, quizId, value >= 1)
       IN  /\ resp' = [handler |-> "studentSettingsPost", quizId |-> quizId,
                       status |-> status]
           /\ quizSettings' = IF status = 200
                              THEN [quizSettings EXCEPT ![quizId] = value]
                              ELSE quizSettings
    /\ UNCHANGED <<data, r2, maxAttempts, quizAttempts, requests, started,
                   client, userProgress, createdAt>>

(* DELETE: the delete of a row that does not exist throws and is answered  *)
(* 500.                                                                    *)
StudentSettingsDELETE(role, hasStudentId, quizId) ==
    /\ LET status == StudentSettingsStatus(role, hasStudentId, quizId, TRUE)
       IN  IF status = 200 /\ quizSettings[quizId] = 0
           THEN /\ resp' = [handler |-> "studentSettingsDelete", quizId |-> quizId,
                            status |-> 500]
                /\ quizSettings' = quizSettings
           ELSE /\ resp' = [handler |-> "studentSettingsDelete", quizId |-> quizId,
                            status |-> status]
                /\ quizSettings' = IF status = 200
                                   THEN [quizSettings EXCEPT ![quizId] = 0]
                                   ELSE quizSettings
    /\ UNCHANGED <<data, r2, maxAttempts, quizAttempts, requests, started,
                   client, userProgress, createdAt>>

(* One quiz of the course, not yet started by the learner; requests come   *)
(* one after the other.                                                    *)
InitQuiz ==
    /\ course = [price |-> 100, isPublished |-> TRUE]
    /\ purchase \in PurchaseStatuses
    /\ chapters = <<>>
    /\ quizzes \in [{"q1"} -> {r \in QuizRows({CourseId, OtherCourseId}, BOOLEAN) :
                                    r.position = 1}]
    /\ quizResults = [q \in {"q1"} |-> <<>>]
    /\ userStudyType = <<>>
    /\ resp = NoResponse
    /\ R2Idle
    /\ maxAttempts \in [{"q1"} -> 1..MaxAttempts]
    /\ quizSettings = [q \in {"q1"} |-> 0]
    /\ quizAttempts = [q \in {"q1"} |-> "none"]
    /\ requests = [slot \in {1} |-> IdleRequest]
    /\ started = 0
    /\ client = ClientIdle
    /\ userProgress = <<>>
    /\ createdAt = <<>>

(* No quiz GET is between its reads and its response. *)
NoRequestInFlight ==
    \A slot \in DOMAIN requests : requests[slot].pc \in {"idle", "done"}

NextQuiz ==
    \/ \E slot \in DOMAIN requests, session \in BOOLEAN :
            QuizGETStart(slot, session, "q1")
    \/ \E slot \in DOMAIN requests : QuizGETDelete(slot)
    \/ \E slot \in DOMAIN requests : QuizGETCreate(slot)
    \/ NoRequestInFlight /\ QuizSubmit("q1", PassPercentage)
    \/ NoRequestInFlight
        /\ \E role \in Roles, hasStudentId \in BOOLEAN, quizId \in QuizIds,
              value \in SettingValues :
                StudentSettingsPOST(role, hasStudentId, quizId, value)
    \/ NoRequestInFlight
        /\ \E role \in Roles, hasStudentId \in BOOLEAN, quizId \in QuizIds :
                StudentSettingsDELETE(role, hasStudentId, quizId)

SpecQuiz == InitQuiz /\ [][NextQuiz]_vars

(* Two requests of the learner for the same quiz at the same time, the     *)
(* quiz started before or not.                                             *)
InitQuizRace ==
    /\ course = [price |-> 100, isPublished |-> TRUE]
    /\ purchase \in PurchaseStatuses
    /\ chapters = <<>>
    /\ quizzes \in [{"q1"} -> {r \in QuizRows({CourseId}, BOOLEAN) : r.position = 1}]
    /\ quizResults \in [{"q1"} -> {<<>>, <<PassPercentage>>}]
    /\ userStudyType = <<>>
    /\ resp = NoResponse
    /\ R2Idle
    /\ maxAttempts \in [{"q1"} -> 1..(MaxAttempts + 1)]
    /\ quizSettings = [q \in {"q1"} |-> 0]
    /\ quizAttempts \in {a \in [{"q1"} -> AttemptStates] :
                            quizResults["q1"] = <<>> => a["q1"] # "completed"}
    /\ requests = [slot \in {1, 2} |-> IdleRequest]
    /\ started = 0
    /\ client = ClientIdle
    /\ userProgress = <<>>
    /\ createdAt = <<>>

NextQuizRace ==
    \/ \E slot \in DOMAIN requests, session \in BOOLEAN :
            requests[slot].pc = "idle" /\ QuizGETStart(slot, session, "q1")
    \/ \E slot \in DOMAIN requests : QuizGETDelete(slot)
    \/ \E slot \in DOMAIN requests : QuizGETCreate(slot)

SpecQuizRace == InitQuizRace /\ [][NextQuizRace]_vars

-----------------------------------------------------------------------------
(* The gate's handlers next to the requests that write: the chapter PATCH, *)
(* the quiz start and the submission of an attempt, over one chapter and   *)
(* one quiz.                                                               *)

InitFrame ==
    /\ course \in [price : Prices, isPublished : {TRUE}]
    /\ purchase \in {"NONE", "ACTIVE"}
    /\ chapters \in [{"c1"} -> {r \in ChapterRows({CourseId}, {TRUE}, {<<>>}) :
                                    ~r.requirePassingQuiz /\ ~r.isFree /\ r.position = 1}]
    /\ quizzes \in [{"q1"} -> {r \in QuizRows({CourseId}, {TRUE}) : r.position = 2}]
    /\ quizResults = [q \in {"q1"} |-> <<>>]
    /\ userStudyType = <<>>
    /\ resp = NoResponse
    /\ R2Idle
    /\ maxAttempts = [q \in {"q1"} |-> MaxAttempts]
    /\ quizSettings = [q \in {"q1"} |-> 0]
    /\ quizAttempts = [q \in {"q1"} |-> "none"]
    /\ requests = [slot \in {1} |-> IdleRequest]
    /\ started = 0
    /\ client = ClientIdle
    /\ userProgress = <<>>
    /\ createdAt = <<>>

NextFrame ==
    \/ \E session \in BOOLEAN : CourseAccessGET(session)
    \/ \E session \in BOOLEAN : CourseContentGET(session)
    \/ \E session \in BOOLEAN : CourseContentLocksGET(session)
    \/ \E session \in BOOLEAN : FirstContentGET(session)
    \/ \E session \in BOOLEAN, chapterId \in ChapterIds : ChapterGET(session, chapterId)
    \/ \E chapterId \in ChapterIds, position \in Positions : ChapterPATCH(chapterId, position)
    \/ \E slot \in DOMAIN requests : QuizGETStart(slot, TRUE, "q1")
    \/ \E slot \in DOMAIN requests : QuizGETDelete(slot)
    \/ \E slot \in DOMAIN requests : QuizGETCreate(slot)
    \/ QuizSubmit("q1", PassPercentage)

SpecFrame == InitFrame /\ [][NextFrame]_vars

-----------------------------------------------------------------------------
(* The quiz start next to the content listing: two quizzes in a row, the   *)
(* first one passed, failed or not taken.                                  *)

InitQuizLock ==
    /\ course = [price |-> 100, isPublished |-> TRUE]
    /\ purchase \in PurchaseStatuses
    /\ chapters = <<>>
    /\ quizzes = [q \in QuizIds |->
                    [courseId |-> CourseId, position |-> IF q = "q1" THEN 1 ELSE 2,
                     isPublished |-> TRUE]]
    /\ quizResults \in {f \in [QuizIds -> ResultLists] :
                            Len(f["q1"]) <= 1 /\ f["q2"] = <<>>}
    /\ userStudyType = <<>>
    /\ resp = NoResponse
    /\ R2Idle
    /\ maxAttempts \in [QuizIds -> 1..MaxAttempts]
    /\ quizSettings = [q \in QuizIds |-> 0]
    /\ quizAttempts = [q \in QuizIds |-> "none"]
    /\ requests = [slot \in {1} |-> IdleRequest]
    /\ started = 0
    /\ client = ClientIdle
    /\ userProgress = <<>>
    /\ createdAt = <<>>

NextQuizLock ==
    \/ \E session \in BOOLEAN : CourseContentLocksGET(session)
    \/ \E slot \in DOMAIN requests, session \in BOOLEAN, quizId \in QuizIds :
            QuizGETStart(slot, session, quizId)
    \/ \E slot \in DOMAIN requests : QuizGETDelete(slot)
    \/ \E slot \in DOMAIN requests : QuizGETCreate(slot)

SpecQuizLock == InitQuizLock /\ [][NextQuizLock]_vars

-----------------------------------------------------------------------------
(* The FileUpload component: one call of uploadFile, from the fetch of     *)
(* POST /api/r2/upload to the end of its finally block, over the events    *)
(* the upload handler can send: progress events with increasing percents   *)
(* up to 99, one done event and error events.                              *)

ServerPercents == {1, 50, MaxPercent}
ServerUrls == {"", "u"}
ErrorMessages == {"Upload failed", "AccessDenied"}

ServerEvents ==
    {[kind |-> "progress", progress |-> p] : p \in ServerPercents}
    \cup {[kind |-> "done", url |-> u] : u \in ServerUrls}
    \cup {[kind |-> "error", error |-> m] : m \in ErrorMessages}

(* What fetch gives: a 200 response with a body, a response that is not    *)
(* ok, a response without a body, or a rejection.                          *)
FetchOutcomes == {"ok", "notOk", "noBody", "rejected"}

(* How the stream stops: read() resolves with done, or rejects. *)
StreamEnds == {"done", "rejected"}

DoneOnly(event) == event.kind = "done"

(* data.done && data.url *)
DoneAndUrl(event) == event.kind = "done" /\ event.url # ""

(* catch and finally: toast.error and setUploading(false) *)
ClientCatch(c, message) ==
    [c EXCEPT !.toast = IF message = "" THEN "Failed to upload file" ELSE message,
              !.uploading = FALSE, !.phase = "finished"]

(* The message of the error thrown when fetch gives no readable stream. *)
FetchErrorMessage(outcome) ==
    IF outcome = "notOk" THEN "Upload failed (500)"
    ELSE IF outcome = "noBody" THEN "No response body"
    ELSE "Failed to fetch"

(* The percent of the last progress event received. *)
LastPercentReceived(received) ==
    LET ps == {received[i].progress : i \in {j \in 1..Len(received) :
                                                received[j].kind = "progress"}}
    IN  IF ps = {} THEN 0 ELSE CHOOSE m \in ps : \A x \in ps : x <= m

(* The events the handler can still send after those received. *)
CanFollow(received, event) ==
    /\ event.kind = "progress" => event.progress > LastPercentReceived(received)
    /\ event.kind = "done" =>
            \A i \in 1..Len(received) : received[i].kind # "done"

(* setUploading(true); setProgress(0); fetch *)
ClientUploadFile ==
    /\ client.phase = "idle"
    /\ client' = [client EXCEPT !.phase = "fetching", !.uploading = TRUE,
                                !.progress = 0]
    /\ UNCHANGED <<data, resp, r2, quizSide, userProgress, createdAt>>

(* fetch settles *)
ClientResponse(outcome) ==
    /\ client.phase = "fetching"
    /\ client' = IF outcome = "ok" THEN [client EXCEPT !.phase = "reading"]
                 ELSE ClientCatch(client, FetchErrorMessage(outcome))
    /\ UNCHANGED <<data, resp, r2, quizSide, userProgress, createdAt>>

(* reader.read() resolves with an event and the loop body handles it *)
ClientRead(event) ==
    /\ client.phase = "reading"
    /\ CanFollow(client.received, event)
    /\ LET c == [client EXCEPT !.received = Append(@, event)]
       IN  client' =
             IF event.kind = "progress"
             THEN [c EXCEPT !.progress = event.progress]
             ELSE IF DoneAndUrl(event)
             THEN [c EXCEPT !.progress = 100,
                            !.onChange = Append(@, event.url),
                            !.toast = "File uploaded successfully!",
                            !.uploading = FALSE,
                            !.phase = "finished"]
             ELSE IF event.kind = "error" /\ event.error # ""
             THEN ClientCatch(c, event.error)
             ELSE c
    /\ UNCHANGED <<data, resp, r2, quizSide, userProgress, createdAt>>

(* reader.read() resolves with done, or rejects: the stream ended without  *)
(* an event that finished the call.                                        *)
ClientStreamEnd(end) ==
    /\ client.phase = "reading"
    /\ client' = ClientCatch(client, IF end = "done"
                                     THEN "Upload stream ended unexpectedly"
                                     ELSE "")
    /\ UNCHANGED <<data, resp, r2, quizSide, userProgress, createdAt>>

InitClient ==
    /\ GateIdle
    /\ R2Idle
    /\ RestIdle

NextClient ==
    \/ ClientUploadFile
    \/ \E outcome \in FetchOutcomes : ClientResponse(outcome)
    \/ \E event \in ServerEvents : ClientRead(event)
    \/ \E end \in StreamEnds : ClientStreamEnd(end)

(* The fetch and every read() settle: the connection delivers the next     *)
(* event, ends or fails.                                                   *)
SpecClient == InitClient /\ [][NextClient]_vars /\ WF_vars(NextClient)

-----------------------------------------------------------------------------
(* GET /courses/{courseId}/progress: the learner's progress in the course, *)
(* over two chapters and a quiz, published or not, with the learner's      *)
(* UserProgress rows and quiz results and their createdAt.                 *)

Dates == 1..2
NoProgress == [exists |-> FALSE]

UserProgressRows ==
    {NoProgress}
    \cup {[exists |-> TRUE, isCompleted |-> b, createdAt |-> d] :
            b \in BOOLEAN, d \in Dates}

(* purchase?.createdAt of the ACTIVE purchase *)
PurchaseDate == IF ActivePurchase THEN createdAt.purchase ELSE Undefined

(* ...(purchaseDate ? { createdAt: { gte: purchaseDate } } : {}) *)
SincePurchase(date) == PurchaseDate = Undefined \/ date >= PurchaseDate

(* db.userProgress.count: completed rows whose chapter is of the course *)
CompletedChapters ==
    {c \in DOMAIN chapters :
        /\ chapters[c].courseId = CourseId
        /\ userProgress[c].exists
        /\ userProgress[c].isCompleted
        /\ SincePurchase(userProgress[c].createdAt)}

(* uniqueQuizIds: published quizzes of the course with a result *)
CompletedQuizzes ==
    {q \in PublishedQuizzes :
        \E i \in 1..Len(createdAt.results[q]) : SincePurchase(createdAt.results[q][i])}

CourseProgressGET(session) ==
    /\ resp' =
        IF ~session THEN [handler |-> "progress", session |-> session, status |-> 401]
        ELSE LET totalContent == Cardinality(PublishedChapters)
                                    + Cardinality(PublishedQuizzes)
                 completedContent == Cardinality(CompletedChapters)
                                        + Cardinality(CompletedQuizzes)
             IN  [handler |-> "progress", session |-> session, status |-> 200,
                  totalContent |-> totalContent,
                  completedContent |-> completedContent,
                  progress |-> IF totalContent > 0
                               THEN MathRound(completedContent, totalContent)
                               ELSE 0]
    /\ UNCHANGED <<data, r2, others>>

InitProgress ==
    /\ course = [price |-> 100, isPublished |-> TRUE]
    /\ purchase \in {"NONE", "ACTIVE"}
    /\ chapters \in [ChapterIds -> {r \in ChapterRows({CourseId}, BOOLEAN, {<<>>}) :
                        ~r.requirePassingQuiz /\ ~r.isFree /\ r.position = 1}]
    /\ quizzes \in [{"q1"} -> {r \in QuizRows({CourseId}, BOOLEAN) : r.position = 1}]
    /\ quizResults \in [{"q1"} -> {l \in ResultLists :
                                    \A i \in 1..Len(l) : l[i] = PassPercentage}]
    /\ userStudyType = <<>>
    /\ resp = NoResponse
    /\ R2Idle
    /\ maxAttempts = <<>>
    /\ quizSettings = <<>>
    /\ quizAttempts = <<>>
    /\ requests = <<>>
    /\ started = 0
    /\ client = ClientIdle
    /\ userProgress \in [ChapterIds -> UserProgressRows]
    /\ createdAt \in [purchase : Dates,
                      results : [{"q1"} -> [1..Len(quizResults["q1"]) -> Dates]]]

NextProgress ==
    \E session \in BOOLEAN : CourseProgressGET(session)

SpecProgress == InitProgress /\ [][NextProgress]_vars

-----------------------------------------------------------------------------
(* The lock rules as the specification states them, for the properties.    *)

SetMax(S) == CHOOSE m \in S : \A x \in S : x <= m

ResultSet(q) ==
    IF q \in DOMAIN quizResults
    THEN {quizResults[q][k] : k \in 1..Len(quizResults[q])}
    ELSE {}

(* The learner's best percentage for the quiz is at least 50. *)
PassedAtBest(q) == ResultSet(q) # {} /\ SetMax(ResultSet(q)) >= 50

QuizzesBefore(items, i) == {j \in 1..(i - 1) : items[j].type = "quiz"}

(* A quiz precedes item i and the nearest one is not passed. *)
NearestQuizFails(items, i) ==
    /\ QuizzesBefore(items, i) # {}
    /\ ~PassedAtBest(items[SetMax(QuizzesBefore(items, i))].id)

AccessRule == course.price = 0 \/ purchase = "ACTIVE"

IsListing == resp.handler = "contentLocks"

-----------------------------------------------------------------------------
(* C1: in the content listing, for a learner with course access, an item   *)
(* is locked by the sequence rule if and only if a quiz precedes it and    *)
(* the nearest preceding quiz has no result or a best percentage below 50; *)
(* a best percentage of exactly 50 unlocks and quizzes further back do not *)
(* count. (A chapter the required-quiz rule already locked keeps that      *)
(* reason.)                                                                *)
C1_SequenceLock ==
    (IsListing /\ resp.hasAccess) =>
        \A i \in DOMAIN resp.items :
            LET it == resp.items[i]
                fails == NearestQuizFails(resp.items, i)
            IN  /\ fails => it.isLocked
                /\ (it.isLocked /\ it.lockReason # PassRequiredQuiz) => fails
                /\ (it.lockReason.text = "passQuiz50First") =>
                       it.lockReason.title = resp.items[SetMax(QuizzesBefore(resp.items, i))].id

(* A failed quiz, then a quiz passed at exactly 50, then an unlocked chapter. *)
C1_Witness ==
    /\ IsListing /\ resp.hasAccess
    /\ Len(resp.items) = 3
    /\ resp.items[1].type = "quiz" /\ ~PassedAtBest(resp.items[1].id)
    /\ resp.items[2].type = "quiz" /\ resp.items[2].isLocked
    /\ ResultSet(resp.items[2].id) # {}
    /\ SetMax(ResultSet(resp.items[2].id)) = 50
    /\ resp.items[3].type = "chapter" /\ ~resp.items[3].isLocked

(* C2: a chapter with requirePassingQuiz and a requiredQuizId is locked by  *)
(* the required-quiz rule exactly when the learner has no result for that  *)
(* quiz or their best percentage over all results is below 50.             *)
C2_RequiredQuizBest ==
    (IsListing /\ resp.hasAccess) =>
        \A i \in DOMAIN resp.items :
            LET it == resp.items[i]
            IN  (it.type = "chapter" /\ HasRequiredQuiz(chapters[it.id])) =>
                    /\ ~PassedAtBest(chapters[it.id].requiredQuizId) => it.isLocked
                    /\ PassedAtBest(chapters[it.id].requiredQuizId) =>
                           it.lockReason # PassRequiredQuiz

(* C3: in the content listing, when the caller lacks course access, every   *)
(* quiz and every chapter that is not free is returned locked.             *)
C3_NoAccessLocks ==
    (IsListing /\ ~resp.hasAccess) =>
        \A i \in DOMAIN resp.items :
            LET it == resp.items[i]
            IN  (it.type = "quiz" \/ ~chapters[it.id].isFree) => it.isLocked

(* The lock rules 1 to 4 of the lock engine for item i of a catalog. *)
RuleNoAccess(items, i) ==
    ~AccessRule /\ ~(items[i].type = "chapter" /\ chapters[items[i].id].isFree)

RuleStudyType(items, i) ==
    /\ items[i].type = "chapter"
    /\ Len(chapters[items[i].id].studyTypes) > 0
    /\ userStudyType # <<>>
    /\ ~HasMatchingStudyType(chapters[items[i].id].studyTypes, userStudyType)

RuleRequiredQuiz(items, i) ==
    /\ items[i].type = "chapter"
    /\ HasRequiredQuiz(chapters[items[i].id])
    /\ ~PassedAtBest(chapters[items[i].id].requiredQuizId)

RuleUnlocked(items, i) ==
    /\ ~RuleNoAccess(items, i)
    /\ ~RuleStudyType(items, i)
    /\ ~RuleRequiredQuiz(items, i)
    /\ ~NearestQuizFails(items, i)

(* The items the first-content query may return. *)
FirstContentEligible(items, i) ==
    IF items[i].type = "quiz"
    THEN RuleUnlocked(items, i) /\ AccessRule
    ELSE \/ RuleUnlocked(items, i) /\ AccessRule
         \/ /\ chapters[items[i].id].isFree
            /\ ~RuleStudyType(items, i)
            /\ ~RuleRequiredQuiz(items, i)

(* C5: the first-content query returns the lowest-index item of the merged *)
(* catalog that is an unlocked quiz with access, an unlocked chapter with  *)
(* access, or a free chapter not locked by the study-type or required-quiz *)
(* rules, and {id: null, type: null} exactly when there is no such item.   *)
C5_FirstContent ==
    (resp.handler = "firstContent" /\ resp.status = 200) =>
        LET items == resp.content
            eligible == {i \in DOMAIN items : FirstContentEligible(items, i)}
        IN  IF eligible = {}
            THEN resp.first = [id |-> NoId, type |-> NoId]
            ELSE LET m == CHOOSE i \in eligible : \A j \in eligible : i <= j
                 IN  resp.first = [id |-> items[m].id, type |-> items[m].type]

(* C6: the chapter detail GET answers 403 whenever a lock rule blocks the   *)
(* chapter for the caller (no access on a non-free chapter, required quiz  *)
(* not passed, nearest preceding quiz not passed) and serves the chapter   *)
(* only when none does.                                                    *)
C6_ChapterDetailLocks ==
    (resp.handler = "chapter" /\ resp.status \in {200, 403}) =>
        LET items == resp.sortedContent
            at == {i \in DOMAIN items :
                      items[i].id = resp.chapterId /\ items[i].type = "chapter"}
            ch == chapters[resp.chapterId]
            blocked ==
                \/ ~AccessRule /\ ~ch.isFree
                \/ HasRequiredQuiz(ch) /\ ~PassedAtBest(ch.requiredQuizId)
                \/ \E i \in at : NearestQuizFails(items, i)
        IN  (resp.status = 403) <=> blocked

(* C10: two evaluations of the content listing for the same caller with no *)
(* data change in between return the same items in the same order with the *)
(* same isLocked and lockReason.                                           *)
C10_ListingDeterministic ==
    [][(/\ IsListing
        /\ resp'.handler = "contentLocks"
        /\ resp'.session = resp.session
        /\ data' = data) => resp'.items = resp.items]_vars

(* C7: every handler that reports or uses course access computes hasAccess *)
(* for the learner of a published course as exactly                        *)
(* course.price == 0 OR an ACTIVE purchase exists.                         *)
C7_AccessRule ==
    (/\ resp.handler \in {"access", "content", "contentLocks", "firstContent", "chapter"}
     /\ resp.session /\ resp.status = 200 /\ course.isPublished) =>
        resp.hasAccess = AccessRule

(* C8: the access endpoint reports access and enrollment separately: for a *)
(* free course with no purchase record, hasAccess = true and               *)
(* hasPurchase = false.                                                    *)
C8_AccessAndEnrollment ==
    (/\ resp.handler = "access" /\ resp.status = 200
     /\ course.price = 0 /\ purchase = "NONE") =>
        (resp.hasAccess /\ ~resp.hasPurchase)

(* C4 as stated: in the content listing, a chapter whose studyTypes is     *)
(* non-empty is marked locked whenever the learner's studyType is set and  *)
(* matches none of the chapter's studyTypes.                               *)
C4_ListingStudyType ==
    (IsListing /\ resp.session) =>
        \A i \in DOMAIN resp.items :
            RuleStudyType(resp.items, i) => resp.items[i].isLocked

(* C4, amended: the first-content query never returns a chapter whose      *)
(* studyTypes is non-empty when the learner has course access and a        *)
(* studyType that matches none of them, whatever the chapter's position.   *)
C4_FirstContentStudyType ==
    (resp.handler = "firstContent" /\ resp.status = 200 /\ resp.hasAccess) =>
        \A i \in DOMAIN resp.content :
            RuleStudyType(resp.content, i) => resp.first.id # resp.content[i].id

(* A mismatched chapter leads the catalog and the query passes over it. *)
C4_Witness ==
    /\ resp.handler = "firstContent" /\ resp.status = 200 /\ resp.hasAccess
    /\ Len(resp.content) = 2
    /\ RuleStudyType(resp.content, 1)
    /\ chapters[resp.content[1].id].isFree
    /\ resp.first.id = resp.content[2].id

InCatalog(items, id, type) ==
    \E i \in DOMAIN items : items[i].id = id /\ items[i].type = type

(* C9, amended: the merged catalog of both content listings holds exactly  *)
(* the published chapters and published quizzes of the requested course,   *)
(* each once and tagged with its type, in non-decreasing position; no      *)
(* other item appears in it or is named by a sequence lock. (The           *)
(* required-quiz rule reads the results of the chapter's required quiz     *)
(* whether or not that quiz is published.)                                 *)
C9_Catalog ==
    (resp.handler \in {"content", "contentLocks"}) =>
        LET items == resp.items
        IN  /\ \A c \in DOMAIN chapters :
                   InCatalog(items, c, "chapter") <=>
                       (chapters[c].isPublished /\ chapters[c].courseId = CourseId)
            /\ \A q \in DOMAIN quizzes :
                   InCatalog(items, q, "quiz") <=>
                       (quizzes[q].isPublished /\ quizzes[q].courseId = CourseId)
            /\ \A i \in DOMAIN items :
                   /\ items[i].type \in {"chapter", "quiz"}
                   /\ items[i].type = "chapter" =>
                          /\ items[i].id \in DOMAIN chapters
                          /\ items[i].position = chapters[items[i].id].position
                   /\ items[i].type = "quiz" =>
                          /\ items[i].id \in DOMAIN quizzes
                          /\ items[i].position = quizzes[items[i].id].position
            /\ \A i, j \in DOMAIN items :
                   /\ i < j => items[i].position <= items[j].position
                   /\ i # j => items[i].id # items[j].id
            /\ resp.handler = "contentLocks" =>
                   \A i \in DOMAIN items :
                       (items[i].lockReason.text = "passQuiz50First") =>
                           InCatalog(items, items[i].lockReason.title, "quiz")

(* An unpublished or foreign quiz without a result sits before the chapter *)
(* and the chapter is listed unlocked.                                     *)
C9_Witness ==
    /\ IsListing /\ resp.hasAccess
    /\ \E q \in DOMAIN quizzes, i \in DOMAIN resp.items :
           /\ ~InCatalog(resp.items, q, "quiz")
           /\ quizResults[q] = <<>>
           /\ resp.items[i].type = "chapter"
           /\ quizzes[q].position < resp.items[i].position
           /\ ~resp.items[i].isLocked

(* C9 as stated: moreover no unpublished item and no item of another       *)
(* course influences a lock decision, so a chapter whose required quiz is  *)
(* not in the catalog is decided as if that quiz had no result.            *)
C9_NoOutsideInfluence ==
    /\ C9_Catalog
    /\ (IsListing /\ resp.hasAccess) =>
           \A i \in DOMAIN resp.items :
               LET it == resp.items[i]
               IN  (/\ it.type = "chapter"
                    /\ HasRequiredQuiz(chapters[it.id])
                    /\ ~InCatalog(resp.items, chapters[it.id].requiredQuizId, "quiz")) =>
                       it.lockReason = PassRequiredQuiz

-----------------------------------------------------------------------------
(* Properties of the upload response stream. *)

IsTerminal(event) == event.type \in {"done", "error"}
TerminalEvents == {i \in DOMAIN upload.events : IsTerminal(upload.events[i])}
ProgressEvents == {i \in DOMAIN upload.events : upload.events[i].type = "progress"}

(* C11: during one upload the progress values of the emitted progress      *)
(* events are strictly increasing and every one lies in 0..99, whatever    *)
(* loaded and total the transfer reports; a callback whose percentage is   *)
(* not above the last emitted one emits nothing, since its event would     *)
(* break the strict increase.                                              *)
C11_ProgressIncreasing ==
    /\ \A i \in ProgressEvents : upload.events[i].progress \in 0..99
    /\ \A i, j \in ProgressEvents :
            i < j => upload.events[i].progress < upload.events[j].progress

(* Two progress events, the second one from a report of more bytes loaded  *)
(* than the total.                                                         *)
C11_Witness ==
    \E i, j \in ProgressEvents :
        /\ i < j
        /\ upload.events[j].loaded > upload.events[j].total
        /\ upload.events[j].progress = 99

(* C12: an upload response stream carries at most one terminal event       *)
(* (done or error); a terminal event is the last event of the stream, so   *)
(* no progress event follows it; the stream is closed exactly when it      *)
(* carries a terminal event; and once the handler has finished, whatever   *)
(* the outcome of the store upload, a stream the client did not cancel     *)
(* carries exactly one.                                                    *)
C12_OneTerminalEvent ==
    /\ Cardinality(TerminalEvents) <= 1
    /\ \A i \in TerminalEvents : i = Len(upload.events)
    /\ upload.closed <=> TerminalEvents # {}
    /\ (upload.phase = "finished" /\ ~upload.cancelled)
            => Cardinality(TerminalEvents) = 1

(* A stream of progress events ended by the error event of a rejected      *)
(* store upload.                                                           *)
C12_Witness ==
    /\ upload.phase = "finished"
    /\ upload.outcome = "rejected"
    /\ Len(upload.events) >= 3
    /\ upload.events[Len(upload.events)].type = "error"
    /\ upload.closed

(* C13: when the object store rejects an upload, the stream ends with a    *)
(* single terminal error event carrying a message, no object is            *)
(* addressable at the key and no multipart session remains open.           *)
C13_RejectAborts ==
    upload.outcome = "rejected" =>
        /\ ~upload.cancelled =>
                /\ Cardinality(TerminalEvents) = 1
                /\ upload.events[Len(upload.events)].type = "error"
                /\ upload.events[Len(upload.events)].error # ""
        /\ ~store.object
        /\ ~store.sessionOpen

(* C14: once the client has disconnected, the transfer to the store does   *)
(* not keep running (no further part is sent) and the upload does not end  *)
(* with a multipart session left open.                                     *)
C14_CancelAborts ==
    [][(upload.cancelled /\ store.mode = "multipart") =>
            /\ store'.partsSent = store.partsSent
            /\ upload'.phase = "finished" => ~store'.sessionOpen]_vars

C19_ConfigFailsFast ==
    (env.bucket = "" \/ env.publicUrl = <<>>) =>
        /\ \A i \in DOMAIN upload.events : upload.events[i].type # "done"
        /\ upload.phase = "finished" =>
                /\ store.partsSent = 0
                /\ ~upload.cancelled =>
                        upload.events[Len(upload.events)].type = "error"

-----------------------------------------------------------------------------
(* Properties of the key and content-type helpers. *)

(* C16: generateR2Key(originalName, folder) is folder "/" ts "-" id "-"    *)
(* safe with a folder and ts "-" id "-" safe without one, the folder       *)
(* unchanged; safe is as long as originalName, made of characters of       *)
(* [A-Za-z0-9.-] and "_", and equal to originalName wherever its character *)
(* is of that class.                                                       *)
C16_KeyShape ==
    call.fn = "generateR2Key" =>
        LET name == call.originalName
            key == call.result
            prefix == IF call.folder # <<>> THEN call.folder \o <<"/">> ELSE <<>>
            head == prefix \o call.ts \o <<"-">> \o call.id \o <<"-">>
            safe == SubSeq(key, Len(head) + 1, Len(key))
        IN  /\ Len(key) = Len(head) + Len(name)
            /\ SubSeq(key, 1, Len(head)) = head
            /\ \A i \in 1..Len(name) :
                    /\ safe[i] \in SafeChars \cup {"_"}
                    /\ name[i] \in SafeChars => safe[i] = name[i]

(* A key with a folder, from a name with a dot and a white-space           *)
(* character.                                                              *)
C16_Witness ==
    /\ call.fn = "generateR2Key"
    /\ call.folder # <<>>
    /\ \E i, j \in 1..Len(call.originalName) :
            call.originalName[i] = "." /\ call.originalName[j] = SP

(* C17: guessContentType(filename, fallback) is the table's MIME type when *)
(* the text after the last "." of filename, lower-cased, is a key of the   *)
(* extension table, and fallback for every other filename: one with an     *)
(* unknown extension and one without any ".".                              *)
C17_ExtensionOrFallback ==
    call.fn = "guessContentType" =>
        LET name == call.filename
            dots == {i \in 1..Len(name) : name[i] = "."}
            ext == ToLowerCase(SubSeq(name, SetMax(dots) + 1, Len(name)))
        IN  IF dots # {} /\ ext \in DOMAIN EXT_TO_MIME
            THEN call.result = EXT_TO_MIME[ext]
            ELSE call.result = call.fallback

(* C18: the url of the done event is the public base URL, without its      *)
(* trailing "/" if it has one, then one "/", then the key of the upload.   *)
C18_UrlOneSeparator ==
    \A i \in DOMAIN upload.events :
        (upload.events[i].type = "done" /\ env.publicUrl # <<>>) =>
            LET base == env.publicUrl
                bare == IF base[Len(base)] = "/"
                        THEN SubSeq(base, 1, Len(base) - 1) ELSE base
            IN  /\ upload.events[i].key = upload.key
                /\ upload.events[i].url = bare \o <<"/">> \o upload.key

(* A done event under a base URL with a trailing "/", for a key with a     *)
(* folder that itself begins with "/".                                     *)
C18_Witness ==
    /\ env.publicUrl # <<>>
    /\ env.publicUrl[Len(env.publicUrl)] = "/"
    /\ upload.phase = "finished"
    /\ upload.events # <<>>
    /\ upload.events[Len(upload.events)].type = "done"
    /\ Head(upload.key) = "/"

-----------------------------------------------------------------------------
(* Properties of the error responses. *)

(* C20: when a route handler of the content access gate (access, content,  *)
(* first-content, chapter detail) catches an exception, it answers 500     *)
(* with the fixed text "Internal Error", whatever was thrown.              *)
C20_GenericErrorBody ==
    (resp.handler \in {"access", "content", "contentLocks", "firstContent", "chapter"}
        /\ resp.status = 500)
            => resp.body = "Internal Error"

-----------------------------------------------------------------------------
(* Quiz attempts. *)

(* The learner has a purchase row for the course and the quiz is a         *)
(* published quiz of the course.                                           *)
QuizOpenTo(quizId) ==
    /\ purchase \in {"ACTIVE", "INACTIVE"}
    /\ quizId \in DOMAIN quizzes
    /\ quizzes[quizId].courseId = CourseId
    /\ quizzes[quizId].isPublished

(* Submitted results plus one for an incomplete attempt. *)
UsedAttempts(quizId) ==
    Len(quizResults[quizId]) + (IF quizAttempts[quizId] = "incomplete" THEN 1 ELSE 0)

(* C22: a quiz GET of a learner with a purchase row, for a published quiz  *)
(* of the course, is answered 400 whenever the submitted results plus one  *)
(* for an incomplete attempt reach quiz.maxAttempts, and then no attempt   *)
(* or result row is created or deleted; with maxAttempts = 1 no second GET *)
(* succeeds after a first one that was not submitted.                      *)
C22_LimitRefuses ==
    [][/\ \A slot \in DOMAIN requests :
            (/\ QuizOpenTo("q1")
             /\ UsedAttempts("q1") >= maxAttempts["q1"]
             /\ QuizGETStart(slot, TRUE, "q1"))
            => /\ requests'[slot].pc = "done"
               /\ requests'[slot].status = 400
               /\ resp'.status = 400
               /\ quizAttempts' = quizAttempts
               /\ quizResults' = quizResults
       /\ maxAttempts["q1"] = 1 => started' <= 1]_vars

(* A second GET refused after a first, un-submitted one, maxAttempts = 1. *)
C22_Witness ==
    /\ resp.handler = "quiz"
    /\ resp.status = 400
    /\ maxAttempts["q1"] = 1
    /\ started = 1
    /\ quizAttempts["q1"] = "incomplete"
    /\ quizResults["q1"] = <<>>

(* C23: while the learner has a QuizStudentSettings row for the quiz, the  *)
(* quiz GET refuses with 400 exactly when the used attempts reach that     *)
(* row's maxAttempts.                                                      *)
C23_StudentLimitApplied ==
    [][\A slot \in DOMAIN requests :
            (/\ QuizOpenTo("q1")
             /\ quizSettings["q1"] # 0
             /\ QuizGETStart(slot, TRUE, "q1"))
            => (requests'[slot].status = 400
                    <=> UsedAttempts("q1") >= quizSettings["q1"])]_vars

(* C24: a quiz GET answered 200 leaves one incomplete attempt row for the  *)
(* pair and the result rows as they were, and its response carries         *)
(* 1 <= currentAttempt <= maxAttempts and                                  *)
(* remainingAttempts = maxAttempts - currentAttempt >= 0.                  *)
C24_SuccessfulStart ==
    [][\A slot \in DOMAIN requests :
            (requests[slot].pc = "create" /\ requests'[slot].status = 200)
            => /\ quizAttempts'["q1"] = "incomplete"
               /\ quizResults' = quizResults
               /\ Len(quizResults["q1"]) = requests[slot].submitted
               /\ resp'.handler = "quiz" /\ resp'.status = 200
               /\ resp'.maxAttempts = maxAttempts["q1"]
               /\ 1 <= resp'.currentAttempt
               /\ resp'.currentAttempt <= resp'.maxAttempts
               /\ resp'.remainingAttempts = resp'.maxAttempts - resp'.currentAttempt
               /\ resp'.remainingAttempts >= 0]_vars

(* A retry answered 200 after one submitted attempt. *)
C24_Witness ==
    /\ resp.handler = "quiz"
    /\ resp.status = 200
    /\ resp.isRetry
    /\ resp.currentAttempt = 2
    /\ quizAttempts["q1"] = "incomplete"
    /\ Len(quizResults["q1"]) = 1

(* C25: the quiz GETs answered 200 for the pair never outnumber            *)
(* quiz.maxAttempts.                                                       *)
C25_StartsBounded ==
    started <= maxAttempts["q1"]

(* C26: no quiz GET of two concurrent ones by the learner for the same     *)
(* quiz is answered 500.                                                   *)
C26_NoInternalError ==
    \A slot \in DOMAIN requests : requests[slot].status # 500

-----------------------------------------------------------------------------
(* Frame of the gate. *)

(* The rows the gate reads, with the learner's quiz attempts. *)
stored == <<course, purchase, chapters, quizzes, quizResults, quizAttempts>>

GateHandlers == {"access", "content", "contentLocks", "firstContent", "chapter"}

(* C21: a step of the access, content listing, first-content or chapter    *)
(* detail GET, in any interleaving with the requests that write, leaves    *)
(* the courses, chapters, quizzes, purchases, quiz results and quiz        *)
(* attempts as they were.                                                  *)
C21_GateLeavesDataUnchanged ==
    [][/\ \A session \in BOOLEAN, chapterId \in ChapterIds :
            (\/ CourseAccessGET(session)
             \/ CourseContentGET(session)
             \/ CourseContentLocksGET(session)
             \/ FirstContentGET(session)
             \/ ChapterGET(session, chapterId))
            => stored' = stored
       /\ (resp' # resp /\ resp'.handler \in GateHandlers) => stored' = stored]_vars

(* A chapter detail answered after a PATCH moved the chapter and the       *)
(* learner started the quiz and submitted it.                              *)
C21_Witness ==
    /\ resp.handler = "chapter"
    /\ resp.status = 200
    /\ chapters["c1"].position = 3
    /\ quizAttempts["q1"] = "completed"
    /\ Len(quizResults["q1"]) = 1

(* The listing of the logged-in learner marks the quiz isLocked = true,    *)
(* whatever the order of items at equal positions.                         *)
QuizLockedInListing(quizId) ==
    \A co \in OrderedByPosition(PublishedChapters, chapters),
       qo \in OrderedByPosition(PublishedQuizzes, quizzes) :
        LET items == ContentWithLocks(TRUE, co, qo)
        IN  \E i \in 1..Len(items) :
                items[i].id = quizId /\ items[i].type = "quiz" /\ items[i].isLocked

(* C27: a quiz the listing marks isLocked = true has no attempt row        *)
(* created by the quiz GET and no quiz GET for it is answered 200 with     *)
(* its questions.                                                          *)
C27_LockedQuizNotStarted ==
    \A quizId \in DOMAIN quizAttempts :
        QuizLockedInListing(quizId)
        => /\ quizAttempts[quizId] = "none"
           /\ \A slot \in DOMAIN requests :
                requests[slot].quizId = quizId => requests[slot].status # 200

-----------------------------------------------------------------------------
(* First content against the listing and the chapter detail. *)

(* Some listing of the logged-in learner marks the item isLocked = true. *)
LockedInSomeListing(id, type) ==
    \E co \in OrderedByPosition(PublishedChapters, chapters),
       qo \in OrderedByPosition(PublishedQuizzes, quizzes) :
        LET items == ContentWithLocks(TRUE, co, qo)
        IN  \E i \in 1..Len(items) :
                items[i].id = id /\ items[i].type = type /\ items[i].isLocked

(* Some chapter detail GET of the logged-in learner answers 403. *)
SomeChapterDetailForbidden(chapterId) ==
    \E co \in OrderedByPosition(PublishedChapters, chapters),
       qo \in OrderedByPosition(PublishedQuizzes, quizzes) :
        ChapterDetailStatus(TRUE, chapterId, co, qo) = 403

(* C28: the item the first-content GET returns is not one the listing      *)
(* marks isLocked = true and, when it is a chapter, the chapter detail GET *)
(* for it does not answer 403.                                             *)
C28_FirstContentOpen ==
    (resp.handler = "firstContent" /\ resp.status = 200 /\ resp.first.id # NoId)
    => /\ ~LockedInSomeListing(resp.first.id, resp.first.type)
       /\ resp.first.type = "chapter" => ~SomeChapterDetailForbidden(resp.first.id)

-----------------------------------------------------------------------------
(* The upload component. *)

(* The last event received is a done event carrying a url. *)
EndedOnDoneWithUrl ==
    /\ client.received # <<>>
    /\ client.received[Len(client.received)].kind = "done"
    /\ client.received[Len(client.received)].url # ""

ClientCallbackSafe ==
    /\ Len(client.onChange) <= 1
    /\ client.onChange # <<>>
        => /\ EndedOnDoneWithUrl
           /\ client.onChange[1] = client.received[Len(client.received)].url
    /\ client.progress = 100 => EndedOnDoneWithUrl
    /\ (\E i \in 1..Len(client.received) : client.received[i].kind = "error")
        => client.onChange = <<>>
    /\ (client.phase = "finished" /\ ~EndedOnDoneWithUrl) => client.onChange = <<>>
    /\ client.phase = "finished" => ~client.uploading

(* C29: during uploadFile, onChange is invoked at most once and only on a  *)
(* done event carrying a url; progress is 100 only on that event; with an  *)
(* error event or a stream that ends without a done event onChange is not  *)
(* invoked; and uploading always returns to false.                         *)
C29_ClientUpload ==
    /\ []ClientCallbackSafe
    /\ client.uploading ~> ~client.uploading

(* A call finished by a done event carrying a url, after two events of    *)
(* which the second is a progress event.                                   *)
C29_Witness ==
    /\ client.phase = "finished"
    /\ client.onChange = <<"u">>
    /\ client.progress = 100
    /\ Len(client.received) = 3
    /\ client.received[2].kind = "progress"
    /\ ~client.uploading

-----------------------------------------------------------------------------
(* Course progress. *)

(* C30: the progress endpoint answers an integer progress in 0..100, 0     *)
(* when the course has no published content, and the completed chapters    *)
(* and quizzes it counts never outnumber the published chapters and        *)
(* quizzes it counts.                                                      *)
C30_ProgressInRange ==
    (resp.handler = "progress" /\ resp.status = 200)
    => /\ resp.progress \in 0..100
       /\ resp.totalContent = 0 => resp.progress = 0
       /\ resp.completedContent <= resp.totalContent

====
